---- MODULE Spec2Model ----
(***************************************************************************)
(* Concurrent range-based downloader of app-builder (pkg/download):        *)
(* Downloader.Download = follow (redirect resolution) + DownloadResolved   *)
(* (computeParts, concurrent part fetches, deleteUnnecessaryParts,         *)
(* concatenateParts with the optional SHA-512 check).                      *)
(*                                                                         *)
(* File contents are byte strings cut out of the one downloaded resource,  *)
(* written as sequences of byte intervals <<from, to>> (to exclusive) with *)
(* adjacent intervals merged, so two contents are equal exactly when the   *)
(* byte strings are equal.                                                 *)
(***************************************************************************)
EXTENDS Integers, Sequences, FiniteSets, TLC

\* ---- bounds of the model ----
MaxBlocks == 4        \* resource lengths go up to MaxBlocks * minPartSize + 1
MaxCPU == 2           \* runtime.NumCPU() ranges over 1..MaxCPU in Spec
MaxLen == 24          \* small content lengths of SpecParts: -1..MaxLen
MaxMinPart == 4       \* small minPartSize arguments of SpecParts: 1..MaxMinPart
MaxCPUParts == 5      \* runtime.NumCPU() ranges over 1..MaxCPUParts in SpecParts

\* ---- program constants ----
maxRedirects == 10
minPartSize == 5 * 1024 * 1024
maxPartCount == 8
StatusOK == 200
HashModulus == 65521

VARIABLES
  pc,                \* position of Download: start, follow, resolved, fetch, merge, done; parts, partsDone in SpecParts
  numCPU,            \* runtime.NumCPU()
  sha512,            \* the expected digest given to Download, <<>> when none
  resourceLength,    \* number of bytes the server holds for the resource
  currentUrl,        \* follow: currentUrl
  redirectsFollowed, \* follow: redirectsFollowed
  requests,          \* follow: number of requests issued by client.Do
  lastStatus,        \* follow: response.StatusCode of the last request's response, 0 when none
  location,          \* the ActualLocation, Nil before follow returns one
  mpsArg,            \* the minPartSize argument of computeParts
  taskState,         \* per part: pending, running, ok, failed; skipped in SpecSkip
  nextTask,          \* MapAsyncConcurrency: next index to dispatch
  firstErr,          \* MapAsyncConcurrency: first captured task error
  cancelled,         \* downloadContext is cancelled
  signalled,         \* onCancelSignal has received SIGINT/SIGTERM
  files,             \* file system: name -> content
  inputHash,         \* concatenateParts: bytes fed to inputHash so far
  mergeIdx,          \* concatenateParts: loop index i
  removeFailed,      \* part files whose os.Remove failed (logged)
  failedInFlight,    \* a part fetch failed while another was still running
  outOfOrder,        \* a part fetch finished while a part of lower index was running
  result             \* what Download returned: none while running

vars == <<pc, numCPU, sha512, resourceLength, currentUrl, redirectsFollowed,
          requests, location, mpsArg, taskState, nextTask, firstErr, cancelled,
          signalled, files, inputHash, mergeIdx, removeFailed, failedInFlight,
          outOfOrder, result, lastStatus>>

\* ---- byte strings as interval lists ----
Content(from, to) == IF to > from THEN << <<from, to>> >> ELSE <<>>

Cat(a, b) ==
  IF a = <<>> THEN b
  ELSE IF b = <<>> THEN a
  ELSE IF a[Len(a)][2] = b[1][1]
       THEN SubSeq(a, 1, Len(a) - 1) \o << <<a[Len(a)][1], b[1][2]>> >> \o Tail(b)
       ELSE a \o b

\* sha512 of a byte string, scaled down to a polynomial digest
RECURSIVE HashSum(_, _)
HashSum(h, content) ==
  IF content = <<>> THEN h
  ELSE HashSum((((h * 31 + (content[1][1] % HashModulus) + 1) % HashModulus) * 31
                 + (content[1][2] % HashModulus) + 1) % HashModulus,
               Tail(content))

\* base64.StdEncoding.EncodeToString: a non-empty string, one per digest
EncodeToString(h) == <<"b64", h>>

\* ---- ActualLocation and Part ----
OutFileName == <<"out">>
InitialUrl == 0
Urls == {0, 1}

NewPart(name, start, end) ==
  [Name |-> name, Start |-> start, End |-> end, Skip |-> FALSE, isFail |-> FALSE]

NewResolvedLocation(url, contentLength, outFileName, isAcceptRanges) ==
  [Url |-> url, OutFileName |-> outFileName, isAcceptRanges |-> isAcceptRanges,
   StatusCode |-> 0, ContentLength |-> contentLength, Parts |-> <<>>]

Nil == [Url |-> -1, OutFileName |-> <<>>, isAcceptRanges |-> FALSE,
        StatusCode |-> 0, ContentLength |-> 0, Parts |-> <<>>]

getMaxPartCount ==
  IF numCPU * 2 > maxPartCount THEN maxPartCount ELSE numCPU * 2

\* mutant of PartName: the part index is left out of the suffix
PartNameNoIndex(outFileName, i) ==
  IF i = 0 THEN outFileName ELSE outFileName \o <<".part">>

PartName(outFileName, i) ==
  IF i = 0 THEN outFileName ELSE outFileName \o <<".part", i>>

\* mutant of PartCount: the quotient is rounded up
PartCountCeil(contentLength, mps) ==
  IF contentLength <= mps THEN 1
  ELSE LET partCount == (contentLength + mps - 1) \div mps
       IN IF partCount > getMaxPartCount THEN getMaxPartCount ELSE partCount

\* lines 47-57 of computeParts
PartCount(contentLength, mps) ==
  IF contentLength <= mps THEN 1
  ELSE LET partCount == contentLength \div mps
       IN IF partCount > getMaxPartCount THEN getMaxPartCount ELSE partCount

\* mutant of PartsLoop: the last part is not stretched to the content length
RECURSIVE PartsLoopNoLastFix(_, _, _, _, _, _)
PartsLoopNoLastFix(i, start, partCount, partSize, contentLength, outFileName) ==
  IF i >= partCount THEN <<>>
  ELSE LET sum == start + partSize
           end == IF sum > contentLength THEN contentLength ELSE sum
       IN <<NewPart(PartName(outFileName, i), start, end)>>
            \o PartsLoopNoLastFix(i + 1, end, partCount, partSize, contentLength, outFileName)

\* lines 63-84 of computeParts: the loop from index i with the running start
RECURSIVE PartsLoop(_, _, _, _, _, _)
PartsLoop(i, start, partCount, partSize, contentLength, outFileName) ==
  IF i >= partCount THEN <<>>
  ELSE LET sum == start + partSize
           end == IF sum > contentLength \/ i = partCount - 1
                  THEN contentLength ELSE sum
       IN <<NewPart(PartName(outFileName, i), start, end)>>
            \o PartsLoop(i + 1, end, partCount, partSize, contentLength, outFileName)

\* mutant of computeParts: the part size is rounded up
computePartsCeilSize(contentLength, outFileName, mps) ==
  IF contentLength < 0
  THEN <<NewPart(outFileName, 0, -1)>>
  ELSE LET partCount == PartCount(contentLength, mps)
           partSize == (contentLength + partCount - 1) \div partCount
       IN PartsLoop(0, 0, partCount, partSize, contentLength, outFileName)

\* mutant of computeParts: an empty resource is taken for an unknown length
computePartsZeroUnknown(contentLength, outFileName, mps) ==
  IF contentLength <= 0
  THEN <<NewPart(outFileName, 0, -1)>>
  ELSE LET partCount == PartCount(contentLength, mps)
           partSize == contentLength \div partCount
       IN PartsLoop(0, 0, partCount, partSize, contentLength, outFileName)

\* mutant of computeParts: parts of minPartSize, the last one takes the rest
computePartsFixedSize(contentLength, outFileName, mps) ==
  IF contentLength < 0
  THEN <<NewPart(outFileName, 0, -1)>>
  ELSE LET partCount == PartCount(contentLength, mps)
           partSize == IF partCount > 1 THEN mps ELSE contentLength
       IN PartsLoop(0, 0, partCount, partSize, contentLength, outFileName)

computeParts(contentLength, outFileName, mps) ==
  IF contentLength < 0
  THEN <<NewPart(outFileName, 0, -1)>>
  ELSE LET partCount == PartCount(contentLength, mps)
           partSize == contentLength \div partCount
       IN PartsLoop(0, 0, partCount, partSize, contentLength, outFileName)

\* the loop body of deleteUnnecessaryParts, from index i down to 0
RECURSIVE DeleteLoop(_, _)
DeleteLoop(parts, i) ==
  IF i < 1 THEN parts
  ELSE IF parts[i].Skip
       THEN DeleteLoop(SubSeq(parts, 1, i - 1) \o SubSeq(parts, i + 1, Len(parts)), i - 1)
       ELSE DeleteLoop(parts, i - 1)

\* mutant of deleteUnnecessaryParts: the loop runs upwards, so the part that
\* moves into a deleted part's place is not looked at
RECURSIVE DeleteLoopForward(_, _)
DeleteLoopForward(parts, i) ==
  IF i > Len(parts) THEN parts
  ELSE IF parts[i].Skip
       THEN DeleteLoopForward(SubSeq(parts, 1, i - 1) \o SubSeq(parts, i + 1, Len(parts)), i + 1)
       ELSE DeleteLoopForward(parts, i + 1)

deleteUnnecessaryPartsForward(parts) == DeleteLoopForward(parts, 1)

deleteUnnecessaryParts(parts) == DeleteLoop(parts, Len(parts))

\* mutant of isRedirect: only the common redirect codes are followed
isRedirectNarrow(status) == status \in {301, 302, 303, 307, 308}

isRedirect(status) == status > 299 /\ status < 400


\* ---- inputs ----
ResourceLengths == {q * minPartSize + r : q \in 0..MaxBlocks, r \in {0, 1}}

\* the digest of the whole resource, as the caller would supply it
ResourceDigest(len) == EncodeToString(HashSum(0, Content(0, len)))
WrongDigest(len) == EncodeToString((HashSum(0, Content(0, len)) + 1) % HashModulus)

Statuses == {200, 204, 299, 300, 302, 399, 400, 404}

NoErr == [index |-> -1, kind |-> "none"]

Init ==
  /\ pc = "start"
  /\ numCPU \in 1..MaxCPU
  /\ resourceLength \in ResourceLengths
  /\ sha512 \in {<<>>, ResourceDigest(resourceLength), WrongDigest(resourceLength)}
  /\ currentUrl = InitialUrl
  /\ redirectsFollowed = 0
  /\ requests = 0
  /\ lastStatus = 0
  /\ location = Nil
  /\ mpsArg = minPartSize
  /\ taskState = <<>>
  /\ nextTask = 0
  /\ firstErr = NoErr
  /\ cancelled = FALSE
  /\ signalled = FALSE
  /\ files = <<>>
  /\ inputHash = <<>>
  /\ mergeIdx = 0
  /\ removeFailed = {}
  /\ failedInFlight = FALSE
  /\ outOfOrder = FALSE
  /\ result = "none"

\* ---- Download: MkdirAll, then follow ----
DownloadStart ==
  /\ pc = "start"
  /\ \E mkdirOk \in BOOLEAN :
       IF mkdirOk
       THEN pc' = "follow" /\ result' = result
       ELSE pc' = "done" /\ result' = "IOError"
  /\ UNCHANGED <<numCPU, sha512, resourceLength, currentUrl, redirectsFollowed,
                 requests, location, mpsArg, taskState, nextTask, firstErr,
                 cancelled, signalled, files, inputHash, mergeIdx, removeFailed,
                 failedInFlight, outOfOrder, lastStatus>>

FollowUnchanged ==
  UNCHANGED <<numCPU, sha512, resourceLength, mpsArg, taskState, nextTask,
              firstErr, cancelled, signalled, files, inputHash, mergeIdx,
              removeFailed, failedInFlight, outOfOrder>>

\* one iteration of the loop of follow: client.Do fails
FollowTransportError ==
  /\ pc = "follow"
  /\ requests' = requests + 1
  /\ pc' = "done"
  /\ result' = "NetworkError"
  /\ lastStatus' = 0
  /\ UNCHANGED <<currentUrl, redirectsFollowed, location>>
  /\ FollowUnchanged

\* mutant of tooManyRedirects: gives up one hop early
tooManyRedirectsEarly(followed) == followed >= maxRedirects

\* line 202 of follow
tooManyRedirects(followed) == followed > maxRedirects

\* one iteration of the loop of follow: the response is a redirect
FollowRedirect ==
  /\ pc = "follow"
  /\ \E status \in Statuses, hasLocation \in BOOLEAN, loc \in Urls :
       /\ isRedirect(status)
       /\ lastStatus' = status
       /\ requests' = requests + 1
       /\ IF ~hasLocation
          THEN /\ pc' = "done"
               /\ result' = "LocationError"
               /\ UNCHANGED <<currentUrl, redirectsFollowed>>
          ELSE /\ currentUrl' = loc
               /\ redirectsFollowed' = redirectsFollowed + 1
               /\ IF tooManyRedirects(redirectsFollowed')
                  THEN pc' = "done" /\ result' = "TooManyRedirectsError"
                  ELSE pc' = "follow" /\ result' = result
  /\ UNCHANGED location
  /\ FollowUnchanged

\* one iteration of the loop of follow: a terminal status other than 200
FollowBadStatus ==
  /\ pc = "follow"
  /\ \E status \in Statuses :
       /\ ~isRedirect(status)
       /\ status # StatusOK
       /\ lastStatus' = status
  /\ requests' = requests + 1
  /\ pc' = "done"
  /\ result' = "HTTPStatusError"
  /\ UNCHANGED <<currentUrl, redirectsFollowed, location>>
  /\ FollowUnchanged

\* one iteration of the loop of follow: status 200, follow returns the location
\* (its locals currentUrl, redirectsFollowed go out of scope)
FollowOK ==
  /\ pc = "follow"
  /\ \E status \in Statuses, contentLength \in {resourceLength, -1}, acceptRanges \in BOOLEAN :
       /\ ~isRedirect(status)
       /\ status = StatusOK
       /\ lastStatus' = status
       /\ location' = NewResolvedLocation(currentUrl, contentLength, OutFileName, acceptRanges)
  /\ currentUrl' = InitialUrl
  /\ redirectsFollowed' = 0
  /\ requests' = 0
  /\ pc' = "resolved"
  /\ result' = result
  /\ FollowUnchanged

\* ---- DownloadResolved ----
\* lines 90-97: the context is created, the parts are computed
DownloadResolvedStart ==
  /\ pc = "resolved"
  /\ location' = [location EXCEPT
        !.Parts = computeParts(location.ContentLength, location.OutFileName, mpsArg)]
  /\ taskState' = [i \in 1..Len(location'.Parts) |-> "pending"]
  /\ nextTask' = 0
  /\ pc' = "fetch"
  /\ UNCHANGED <<numCPU, sha512, resourceLength, currentUrl, redirectsFollowed,
                 requests, mpsArg, firstErr, cancelled, signalled, files,
                 inputHash, mergeIdx, removeFailed, failedInFlight, outOfOrder, result,
                 lastStatus>>

\* onCancelSignal: a signal arrives, the deferred cancel runs
Signal ==
  /\ pc \in {"fetch", "merge"}
  /\ ~signalled
  /\ signalled' = TRUE
  /\ cancelled' = TRUE
  /\ UNCHANGED <<pc, numCPU, sha512, resourceLength, currentUrl, redirectsFollowed,
                 requests, location, mpsArg, taskState, nextTask, firstErr, files,
                 inputHash, mergeIdx, removeFailed, failedInFlight, outOfOrder, result,
                 lastStatus>>

Running == {i \in 1..Len(taskState) : taskState[i] = "running"}

\* mutant of Dispatch: the pending task of highest index is scheduled, slot or not
DispatchLastFirst ==
  /\ pc = "fetch"
  /\ nextTask < Len(location.Parts)
  /\ taskState' = [taskState EXCEPT ![Len(location.Parts) - nextTask] = "running"]
  /\ nextTask' = nextTask + 1
  /\ UNCHANGED <<pc, numCPU, sha512, resourceLength, currentUrl, redirectsFollowed,
                 requests, location, mpsArg, firstErr, cancelled, signalled, files,
                 inputHash, mergeIdx, removeFailed, failedInFlight, outOfOrder, result,
                 lastStatus>>

\* MapAsyncConcurrency: the next pending index is scheduled when a slot is free
Dispatch ==
  /\ pc = "fetch"
  /\ nextTask < Len(location.Parts)
  /\ Cardinality(Running) < getMaxPartCount
  /\ taskState' = [taskState EXCEPT ![nextTask + 1] = "running"]
  /\ nextTask' = nextTask + 1
  /\ UNCHANGED <<pc, numCPU, sha512, resourceLength, currentUrl, redirectsFollowed,
                 requests, location, mpsArg, firstErr, cancelled, signalled, files,
                 inputHash, mergeIdx, removeFailed, failedInFlight, outOfOrder, result,
                 lastStatus>>

\* the exclusive end of the range a part reads: End, or the end of the body
PartEnd(part) == IF part.End < 0 THEN resourceLength ELSE part.End

WriteFile(fs, name, content) ==
  [n \in DOMAIN fs \cup {name} |-> IF n = name THEN content ELSE fs[n]]

RemoveFile(fs, name) == [n \in DOMAIN fs \ {name} |-> fs[n]]

FetchUnchanged ==
  UNCHANGED <<pc, numCPU, sha512, resourceLength, currentUrl, redirectsFollowed,
              requests, mpsArg, nextTask, cancelled, signalled, inputHash,
              mergeIdx, removeFailed, result, lastStatus>>

\* Part.download returns nil: the range is in the part's file
PartSucceed(i) ==
  /\ pc = "fetch"
  /\ taskState[i] = "running"
  /\ ~cancelled
  /\ LET part == location.Parts[i]
     IN files' = WriteFile(files, part.Name, Content(part.Start, PartEnd(part)))
  /\ taskState' = [taskState EXCEPT ![i] = "ok"]
  /\ outOfOrder' = (outOfOrder \/ \E j \in Running : j < i)
  /\ UNCHANGED <<location, firstErr, failedInFlight>>
  /\ FetchUnchanged

\* Part.download returns an error: the task sets isFail, the limiter keeps the
\* first error; the file holds the bytes written before the failure
PartFail(i) ==
  /\ pc = "fetch"
  /\ taskState[i] = "running"
  /\ LET part == location.Parts[i]
         width == PartEnd(part) - part.Start
     IN \E written \in {0, width \div 2} :
          files' = WriteFile(files, part.Name, Content(part.Start, part.Start + written))
  /\ location' = [location EXCEPT !.Parts[i].isFail = TRUE]
  /\ taskState' = [taskState EXCEPT ![i] = "failed"]
  /\ firstErr' = IF firstErr.kind = "none"
                 THEN [index |-> i - 1,
                       kind |-> IF cancelled THEN "CancelledError" ELSE "NetworkError"]
                 ELSE firstErr
  /\ failedInFlight' = (failedInFlight \/ Running \ {i} # {})
  /\ outOfOrder' = (outOfOrder \/ \E j \in Running : j < i)
  /\ FetchUnchanged


\* mutant of AllFinished: the limiter returns as soon as a task has failed
FirstFailureOrAllFinished ==
  \/ \E i \in 1..Len(taskState) : taskState[i] = "failed"
  \/ /\ nextTask = Len(location.Parts)
     /\ \A i \in 1..Len(taskState) : taskState[i] = "ok"

\* mutant of AllFinished: the limiter returns once every task is dispatched
AllDispatched == nextTask = Len(location.Parts)

AllFinished ==
  /\ nextTask = Len(location.Parts)
  /\ \A i \in 1..Len(taskState) : taskState[i] \in {"ok", "failed", "skipped"}

hasCheckSum == Len(sha512) # 0

MergeUnchanged ==
  UNCHANGED <<numCPU, sha512, resourceLength, currentUrl, redirectsFollowed,
              requests, mpsArg, taskState, nextTask, firstErr, signalled,
              failedInFlight, outOfOrder, lastStatus>>

\* concatenateParts lines 96-127 on the parts left for the merge: the early
\* return, or the output file is opened and, with a checksum, read into inputHash
ConcatOpen(parts) ==
  IF ~hasCheckSum /\ Len(parts) = 1
  THEN pc' = "done" /\ result' = "ok" /\ UNCHANGED <<inputHash, mergeIdx>>
  ELSE IF Len(parts) = 0
  THEN pc' = "done" /\ result' = "panic" /\ UNCHANGED <<inputHash, mergeIdx>>
  ELSE IF parts[1].Name \notin DOMAIN files
  THEN pc' = "done" /\ result' = "IOError" /\ UNCHANGED <<inputHash, mergeIdx>>
  ELSE /\ pc' = "merge"
       /\ result' = result
       /\ inputHash' = IF hasCheckSum THEN files[parts[1].Name] ELSE <<>>
       /\ mergeIdx' = 1

\* mutant of isPartError: the error of MapAsyncConcurrency is dropped
isPartErrorIgnored(err) == FALSE

\* line 113: err != nil for what MapAsyncConcurrency returned
isPartError(err) == err.kind # "none"

\* DownloadResolved lines 113-125 once MapAsyncConcurrency has returned: the
\* error return, the cancel loop, deleteUnnecessaryParts, the call of concatenateParts
AfterFetch ==
  /\ pc = "fetch"
  /\ AllFinished
  /\ IF isPartError(firstErr)
     THEN /\ pc' = "done"
          /\ result' = firstErr.kind
          /\ UNCHANGED <<location, cancelled, inputHash, mergeIdx>>
     ELSE /\ cancelled' = (cancelled \/ \E i \in 1..Len(location.Parts) : location.Parts[i].isFail)
          /\ location' = [location EXCEPT !.Parts = deleteUnnecessaryParts(location.Parts)]
          /\ ConcatOpen(location'.Parts)
  /\ UNCHANGED <<files, removeFailed>>
  /\ MergeUnchanged

\* mutant of CopyToTotal: the output file is overwritten instead of appended to
CopyToTotalTruncate(total, bytes) == bytes

\* line 143: io.CopyBuffer into totalFile, which is open with O_APPEND
CopyToTotal(total, bytes) == Cat(total, bytes)

\* mutant of RemovePartFile: the merged part file is left behind
RemovePartFileNever(fs, name, removeOk) == fs

\* lines 149-155: os.Remove of a merged part file; a failure is only logged
RemovePartFile(fs, name, removeOk) == IF removeOk THEN RemoveFile(fs, name) ELSE fs

\* concatenateParts lines 129-156: one iteration of the loop, part mergeIdx is
\* appended to the output file, fed to inputHash and removed
ConcatPart ==
  /\ pc = "merge"
  /\ mergeIdx < Len(location.Parts)
  /\ LET partFileName == location.Parts[mergeIdx + 1].Name
         total == location.Parts[1].Name
     IN IF partFileName \notin DOMAIN files
        THEN /\ pc' = "done"
             /\ result' = "IOError"
             /\ UNCHANGED <<files, inputHash, mergeIdx, removeFailed>>
        ELSE LET appended == WriteFile(files, total, CopyToTotal(files[total], files[partFileName]))
             IN /\ inputHash' = IF hasCheckSum
                                THEN Cat(inputHash, files[partFileName]) ELSE inputHash
                /\ \E removeOk \in BOOLEAN :
                     /\ files' = RemovePartFile(appended, partFileName, removeOk)
                     /\ removeFailed' = IF removeOk THEN removeFailed
                                        ELSE removeFailed \cup {partFileName}
                /\ mergeIdx' = mergeIdx + 1
                /\ UNCHANGED <<pc, result>>
  /\ UNCHANGED <<location, cancelled>>
  /\ MergeUnchanged

\* mutant of CheckSumResult: the digests are compared the wrong way round
CheckSumResultInverted(hashed, expectedSha512) ==
  LET actualCheckSum == EncodeToString(HashSum(0, hashed))
  IN IF Len(expectedSha512) # 0 /\ actualCheckSum = expectedSha512
     THEN "ChecksumMismatchError" ELSE "ok"

\* lines 158-165: the digest of the bytes fed to inputHash against the expected one
CheckSumResult(hashed, expectedSha512) ==
  LET actualCheckSum == EncodeToString(HashSum(0, hashed))
  IN IF Len(expectedSha512) # 0 /\ actualCheckSum # expectedSha512
     THEN "ChecksumMismatchError" ELSE "ok"

\* concatenateParts lines 158-165: the digest is compared, Download returns
ConcatFinish ==
  /\ pc = "merge"
  /\ mergeIdx >= Len(location.Parts)
  /\ result' = CheckSumResult(inputHash, sha512)
  /\ pc' = "done"
  /\ UNCHANGED <<location, cancelled, files, inputHash, mergeIdx, removeFailed>>
  /\ MergeUnchanged

Next ==
  \/ DownloadStart
  \/ FollowTransportError
  \/ FollowRedirect
  \/ FollowBadStatus
  \/ FollowOK
  \/ DownloadResolvedStart
  \/ Signal
  \/ Dispatch
  \/ \E i \in 1..Len(taskState) : PartSucceed(i)
  \/ \E i \in 1..Len(taskState) : PartFail(i)
  \/ AfterFetch
  \/ ConcatPart
  \/ ConcatFinish

Spec == Init /\ [][Next]_vars

\* ---- computeParts as a function of its inputs ----
MiB == 1024 * 1024
PartsLengths == (-1..MaxLen) \cup {5 * MiB, 5 * MiB + 1, 20 * MiB, 20 * MiB + 3, 43 * MiB + 5}
PartsMinSizes == (1..MaxMinPart) \cup {minPartSize}

InitParts ==
  /\ pc = "parts"
  /\ numCPU \in 1..MaxCPUParts
  /\ mpsArg \in PartsMinSizes
  /\ \E contentLength \in PartsLengths :
       location = NewResolvedLocation(InitialUrl, contentLength, OutFileName, TRUE)
  /\ resourceLength = 0
  /\ sha512 = <<>>
  /\ currentUrl = InitialUrl
  /\ redirectsFollowed = 0
  /\ requests = 0
  /\ lastStatus = 0
  /\ taskState = <<>>
  /\ nextTask = 0
  /\ firstErr = NoErr
  /\ cancelled = FALSE
  /\ signalled = FALSE
  /\ files = <<>>
  /\ inputHash = <<>>
  /\ mergeIdx = 0
  /\ removeFailed = {}
  /\ failedInFlight = FALSE
  /\ outOfOrder = FALSE
  /\ result = "none"

ComputePartsCall ==
  /\ pc = "parts"
  /\ location' = [location EXCEPT
        !.Parts = computeParts(location.ContentLength, location.OutFileName, mpsArg)]
  /\ pc' = "partsDone"
  /\ UNCHANGED <<numCPU, sha512, resourceLength, currentUrl, redirectsFollowed,
                 requests, mpsArg, taskState, nextTask, firstErr, cancelled,
                 signalled, files, inputHash, mergeIdx, removeFailed,
                 failedInFlight, outOfOrder, result, lastStatus>>

NextParts == ComputePartsCall

SpecParts == InitParts /\ [][NextParts]_vars


\* ---- deleteUnnecessaryParts and concatenateParts with Skip flags ----
\* The parts have been fetched and Skip has been set on any of them from
\* outside; a skipped part has not been downloaded.
InitSkip ==
  /\ pc = "fetch"
  /\ numCPU \in 1..MaxCPU
  /\ resourceLength \in ResourceLengths
  /\ sha512 \in {<<>>, ResourceDigest(resourceLength), WrongDigest(resourceLength)}
  /\ mpsArg = minPartSize
  /\ \E acceptRanges \in BOOLEAN :
       LET loc == NewResolvedLocation(InitialUrl, resourceLength, OutFileName, acceptRanges)
           parts == computeParts(loc.ContentLength, loc.OutFileName, mpsArg)
       IN \E skipped \in SUBSET (1..Len(parts)) :
            /\ location = [loc EXCEPT !.Parts =
                  [i \in 1..Len(parts) |-> [parts[i] EXCEPT !.Skip = (i \in skipped)]]]
            /\ taskState = [i \in 1..Len(parts) |-> IF i \in skipped THEN "skipped" ELSE "ok"]
            /\ nextTask = Len(parts)
            /\ files = [n \in {parts[i].Name : i \in (1..Len(parts)) \ skipped} |->
                  LET i == CHOOSE k \in 1..Len(parts) : parts[k].Name = n
                  IN Content(parts[i].Start, parts[i].End)]
  /\ currentUrl = InitialUrl
  /\ redirectsFollowed = 0
  /\ requests = 0
  /\ lastStatus = StatusOK
  /\ firstErr = NoErr
  /\ cancelled = FALSE
  /\ signalled = FALSE
  /\ inputHash = <<>>
  /\ mergeIdx = 0
  /\ removeFailed = {}
  /\ failedInFlight = FALSE
  /\ outOfOrder = FALSE
  /\ result = "none"

NextSkip ==
  \/ AfterFetch
  \/ ConcatPart
  \/ ConcatFinish

SpecSkip == InitSkip /\ [][NextSkip]_vars

\* ======================= properties =======================
Parts == location.Parts
PartsComputed == pc = "partsDone"
Width(part) == part.End - part.Start
Clamp(x, lo, hi) == IF x < lo THEN lo ELSE IF x > hi THEN hi ELSE x

\* C1: for every content length L >= 0 and every minPartSize >= 1 the computed
\* parts start at 0, each part starts where the previous one ends, no part has
\* Start > End, the last part ends at L, and there are at most getMaxPartCount
\* (itself at most 8) parts.
C1_PartitionCoverage ==
  (PartsComputed /\ location.ContentLength >= 0 /\ mpsArg >= 1) =>
    /\ Len(Parts) >= 1
    /\ Parts[1].Start = 0
    /\ \A i \in 1..(Len(Parts) - 1) : Parts[i + 1].Start = Parts[i].End
    /\ \A i \in 1..Len(Parts) : Parts[i].Start <= Parts[i].End
    /\ Parts[Len(Parts)].End = location.ContentLength
    /\ Len(Parts) <= getMaxPartCount
    /\ getMaxPartCount <= 8

C1_Witness ==
  /\ PartsComputed
  /\ Len(Parts) = 8
  /\ location.ContentLength % 8 # 0
  /\ Parts[8].End = location.ContentLength

\* C2: the number of parts is clamp(floor(L / minPartSize), 1, maxWorkers); 20 MiB
\* with minPartSize 5 MiB and 8 workers gives 4 parts of 5 MiB, the last ending at L.
C2_PartCount ==
  (PartsComputed /\ location.ContentLength >= 0) =>
    /\ Len(Parts) = Clamp(location.ContentLength \div mpsArg, 1, getMaxPartCount)
    /\ (location.ContentLength = 20 * MiB /\ mpsArg = 5 * MiB /\ getMaxPartCount = 8) =>
         /\ Len(Parts) = 4
         /\ \A i \in 1..4 : Width(Parts[i]) = 5 * MiB
         /\ Parts[4].End = location.ContentLength

C2_Witness ==
  /\ PartsComputed
  /\ location.ContentLength = 20 * MiB
  /\ mpsArg = 5 * MiB
  /\ getMaxPartCount = 8
  /\ Len(Parts) = 4

\* C3: every part but the last is floor(L / partCount) wide, the last part takes
\* the whole remainder, L - (partCount - 1) * floor(L / partCount), and ends at L.
C3_EqualWidths ==
  (PartsComputed /\ location.ContentLength >= 0) =>
    LET n == Len(Parts)
        w == location.ContentLength \div n
    IN /\ \A i \in 1..(n - 1) : Width(Parts[i]) = w
       /\ Width(Parts[n]) = location.ContentLength - (n - 1) * w
       /\ Parts[n].End = location.ContentLength

C3_Witness ==
  /\ PartsComputed
  /\ Len(Parts) = 3
  /\ location.ContentLength % 3 = 2
  /\ Width(Parts[3]) = Width(Parts[1]) + 2

\* C4: a negative content length gives exactly one part, named as the output
\* file, with Start = 0 and End = -1; with a content length >= 0 no part has End = -1.
C4_UnknownLength ==
  PartsComputed =>
    IF location.ContentLength < 0
    THEN /\ Len(Parts) = 1
         /\ Parts[1].Name = location.OutFileName
         /\ Parts[1].Start = 0
         /\ Parts[1].End = -1
    ELSE \A i \in 1..Len(Parts) : Parts[i].End # -1

C4_Witness ==
  /\ PartsComputed
  /\ location.ContentLength = -1
  /\ Len(Parts) = 1
  /\ Parts[1].End = -1


Done == pc = "done"

\* C5: while follow is running every request so far was answered by a redirect
\* it followed, at most 10 of them; it gives up with TooManyRedirectsError on
\* the 11th redirect answer, after exactly 11 requests, never earlier or later,
\* and then no ActualLocation is returned.
C5_RedirectBound ==
  /\ pc = "follow" => (requests = redirectsFollowed /\ redirectsFollowed <= maxRedirects)
  /\ result = "TooManyRedirectsError" =>
       (Done /\ requests = 11 /\ redirectsFollowed = 11 /\ location = Nil)
  /\ redirectsFollowed > maxRedirects => result = "TooManyRedirectsError"

C5_Witness ==
  /\ result = "TooManyRedirectsError"
  /\ requests = 11
  /\ location = Nil

\* the bytes of parts i..Len(parts) one after the other
RECURSIVE RangeBytes(_, _)
RangeBytes(parts, i) ==
  IF i > Len(parts) THEN <<>>
  ELSE Cat(Content(parts[i].Start, PartEnd(parts[i])), RangeBytes(parts, i + 1))

\* what a download of the resource as a single part leaves in the output file
SinglePartBytes == RangeBytes(computeParts(-1, OutFileName, mpsArg), 1)

Reassembled == Done /\ result \in {"ok", "ChecksumMismatchError"}

\* C6: whatever the number of parts and the order in which the fetches finish,
\* once reassembly is through the output file holds part 0's bytes followed by
\* those of part 1 .. N-1, which is what a single-part download leaves there.
C6_ReassemblyOrder ==
  Reassembled =>
    /\ OutFileName \in DOMAIN files
    /\ files[OutFileName] = RangeBytes(Parts, 1)
    /\ files[OutFileName] = SinglePartBytes

C6_Witness ==
  /\ Reassembled
  /\ Len(Parts) >= 3
  /\ outOfOrder
  /\ files[OutFileName] = SinglePartBytes

\* C7: with a non-empty expected SHA-512, Download returns success only if the
\* digest of the whole output file (part 0 followed by all other parts) equals
\* the expected value, for one part and for many.
C7_ChecksumEnforced ==
  (Done /\ result = "ok" /\ Len(sha512) # 0) =>
    /\ OutFileName \in DOMAIN files
    /\ EncodeToString(HashSum(0, files[OutFileName])) = sha512
    /\ files[OutFileName] = RangeBytes(Parts, 1)

C7_Witness ==
  /\ Done
  /\ result = "ok"
  /\ Len(sha512) # 0
  /\ Len(Parts) >= 2

C7_WitnessMismatch ==
  /\ Done
  /\ result = "ChecksumMismatchError"
  /\ Len(Parts) = 1

AllFetched ==
  /\ Len(taskState) >= 1
  /\ \A i \in 1..Len(taskState) : taskState[i] = "ok"

WrongDigestGiven == sha512 = WrongDigest(resourceLength)

\* C8 as claimed: with a wrong expected digest fetch fails with the checksum
\* mismatch and the part files that were merged are still there when it does.
C8_PartFilesKept ==
  (Done /\ AllFetched /\ WrongDigestGiven) =>
    /\ result = "ChecksumMismatchError"
    /\ \A i \in 2..Len(Parts) : Parts[i].Name \in DOMAIN files

\* C8 as amended: with a wrong expected digest and every part fetched, fetch
\* fails with the checksum mismatch; by then every part file has been appended
\* to the output and removed (it is left only if its removal failed), and the
\* output file holds all the bytes.
C8_PartFilesRemoved ==
  (Done /\ AllFetched /\ WrongDigestGiven) =>
    /\ result = "ChecksumMismatchError"
    /\ mergeIdx = Len(Parts)
    /\ \A i \in 2..Len(Parts) :
         Parts[i].Name \in DOMAIN files <=> Parts[i].Name \in removeFailed
    /\ files[OutFileName] = RangeBytes(Parts, 1)

C8_Witness ==
  /\ Done
  /\ WrongDigestGiven
  /\ result = "ChecksumMismatchError"
  /\ Len(Parts) >= 2
  /\ \A i \in 2..Len(Parts) : Parts[i].Name \notin DOMAIN files

\* C9 as claimed: when a part fetch fails while others are in flight, the
\* shared context is cancelled before the fetch call returns.
C9_CancelOnFailure ==
  (Done /\ failedInFlight) => cancelled

\* C10: if a part fetch failed, DownloadResolved returns the first part error,
\* never success, and does no reassembly: every part file is what its own fetch
\* wrote, none is appended to or deleted; isFail is set on exactly the parts
\* whose fetch returned an error.
PartFileUntouched(i) ==
  /\ Parts[i].Name \in DOMAIN files
  /\ LET f == files[Parts[i].Name]
     IN IF taskState[i] = "ok"
        THEN f = Content(Parts[i].Start, PartEnd(Parts[i]))
        ELSE \/ f = <<>>
             \/ /\ Len(f) = 1
                /\ f[1][1] = Parts[i].Start
                /\ f[1][2] < PartEnd(Parts[i])

C10_FirstErrorNoMerge ==
  /\ pc \in {"fetch", "merge", "done"} =>
       /\ Len(taskState) = Len(Parts)
       /\ \A i \in 1..Len(Parts) : Parts[i].isFail <=> taskState[i] = "failed"
  /\ (Done /\ \E i \in 1..Len(taskState) : taskState[i] = "failed") =>
       /\ firstErr.kind \in {"NetworkError", "CancelledError"}
       /\ result = firstErr.kind
       /\ taskState[firstErr.index + 1] = "failed"
       /\ mergeIdx = 0
       /\ inputHash = <<>>
       /\ removeFailed = {}
       /\ \A i \in 1..Len(Parts) : PartFileUntouched(i)

C10_Witness ==
  /\ Done
  /\ Len(Parts) >= 3
  /\ taskState[2] = "failed"
  /\ taskState[1] = "ok"
  /\ taskState[3] = "ok"
  /\ result = "NetworkError"
  /\ Parts[2].isFail


\* C11: concatenateParts runs only once every dispatched part worker has
\* finished: while the merge reads or appends to files, and after it, no part
\* task is running or still to be dispatched (part 0's file, the output file,
\* included).
C11_MergeAfterWorkers ==
  (pc = "merge" \/ (Done /\ mergeIdx > 0)) =>
    /\ Running = {}
    /\ nextTask = Len(taskState)
    /\ \A i \in 1..Len(taskState) : taskState[i] \in {"ok", "failed", "skipped"}

C11_Witness ==
  /\ pc = "merge"
  /\ mergeIdx = 2
  /\ Len(Parts) >= 3
  /\ outOfOrder
  /\ Running = {}


Finished(i) == taskState[i] \in {"ok", "failed"}

\* the bytes of a file all lie in the range of part i
WithinPart(f, i) ==
  \/ f = <<>>
  \/ /\ Len(f) = 1
     /\ f[1][1] = Parts[i].Start
     /\ f[1][2] <= PartEnd(Parts[i])

\* C12: part 0 is named as the output file and part i > 0 as the output name
\* followed by .part<i>, so the names are pairwise distinct; while the parts are
\* fetched every file is the file of exactly one part whose worker has written,
\* it holds bytes of that part's range only, and a worker has changed nothing of
\* the Parts but the isFail flag of its own Part.
C12_OwnFileOnly ==
  pc = "fetch" =>
    /\ Parts[1].Name = location.OutFileName
    /\ \A i \in 2..Len(Parts) : Parts[i].Name = location.OutFileName \o <<".part", i - 1>>
    /\ \A i, j \in 1..Len(Parts) : i # j => Parts[i].Name # Parts[j].Name
    /\ DOMAIN files = {Parts[i].Name : i \in {k \in 1..Len(Parts) : Finished(k)}}
    /\ \A i \in 1..Len(Parts) : Finished(i) => WithinPart(files[Parts[i].Name], i)
    /\ \A i \in 1..Len(Parts) :
         /\ Parts[i].Start = computeParts(location.ContentLength, location.OutFileName, mpsArg)[i].Start
         /\ Parts[i].End = computeParts(location.ContentLength, location.OutFileName, mpsArg)[i].End
         /\ Parts[i].Skip = FALSE
         /\ Parts[i].isFail = (taskState[i] = "failed")

C12_Witness ==
  /\ pc = "fetch"
  /\ Len(Parts) >= 3
  /\ \A i \in 1..Len(Parts) : Finished(i)
  /\ Parts[2].isFail
  /\ ~Parts[3].isFail
  /\ Cardinality(DOMAIN files) = Len(Parts)


\* C13 as claimed: when the resolved response advertises no range support,
\* resolution does not fail and exactly one Part is computed, whatever the
\* content length.
C13_SinglePartWithoutRanges ==
  (location # Nil /\ ~location.isAcceptRanges) =>
    /\ result \notin {"NetworkError", "HTTPStatusError", "LocationError",
                      "TooManyRedirectsError"} \/ Len(taskState) > 0
    /\ pc = "fetch" => Len(Parts) = 1


\* C14 as claimed: whenever Download returns success the only file left is the
\* target file, every .partN file has been removed.
C14_OnlyTargetLeft ==
  (Done /\ result = "ok") => DOMAIN files = {OutFileName}

\* C14 as amended: whenever Download returns success, the files left are the
\* target file and those .partN files whose removal failed (which is logged);
\* every other .partN file has been removed.
C14_OnlyTargetOrUnremovable ==
  (Done /\ result = "ok") =>
    /\ DOMAIN files = {OutFileName} \cup removeFailed
    /\ removeFailed \subseteq {Parts[i].Name : i \in 2..Len(Parts)}

C14_Witness ==
  /\ Done
  /\ result = "ok"
  /\ Len(Parts) >= 3
  /\ removeFailed = {}
  /\ DOMAIN files = {OutFileName}


\* C15: follow returns an ActualLocation only from a terminal 2xx response,
\* never from a redirect; a response with a status in (299, 400) is followed as
\* a redirect (follow goes on, or ends for want of a Location header or with
\* too many redirects); a terminal status outside 2xx/3xx ends follow with an
\* HTTP status error and no location.
C15_OnlyTerminal2xx ==
  /\ location # Nil => (lastStatus >= 200 /\ lastStatus <= 299)
  /\ (lastStatus > 299 /\ lastStatus < 400) =>
       /\ location = Nil
       /\ \/ pc = "follow" /\ result = "none"
          \/ Done /\ result \in {"TooManyRedirectsError", "LocationError"}
  /\ (lastStatus # 0 /\ (lastStatus < 200 \/ lastStatus >= 400)) =>
       (Done /\ result = "HTTPStatusError" /\ location = Nil)

C15_Witness ==
  /\ location # Nil
  /\ lastStatus = 200
  /\ pc = "resolved"

C15_WitnessRedirect ==
  /\ lastStatus = 399
  /\ pc = "follow"
  /\ redirectsFollowed = 3

C15_WitnessBadStatus ==
  /\ lastStatus = 404
  /\ result = "HTTPStatusError"
  /\ redirectsFollowed = 2


LimiterReturned == pc \in {"merge", "done"} /\ Len(taskState) > 0

\* C16: the limiter goes on dispatching after a task has failed, and when it
\* has returned every task index 0 .. taskCount-1 has been run to its end; it
\* returns an error exactly when some task failed, and that error is the one
\* of a failed task, captured first.
C16_AllTasksAttempted ==
  /\ (pc = "fetch" /\ nextTask < Len(Parts) /\ Cardinality(Running) < getMaxPartCount)
       => ENABLED Dispatch
  /\ LimiterReturned =>
       /\ nextTask = Len(taskState)
       /\ \A i \in 1..Len(taskState) : Finished(i)
       /\ (firstErr.kind = "none") <=> (\A i \in 1..Len(taskState) : taskState[i] = "ok")
       /\ firstErr.kind # "none" =>
            /\ firstErr.index \in 0..(Len(taskState) - 1)
            /\ taskState[firstErr.index + 1] = "failed"
            /\ result = firstErr.kind

C16_Witness ==
  /\ LimiterReturned
  /\ Len(taskState) >= 3
  /\ firstErr.index = 0
  /\ taskState[2] = "ok"
  /\ taskState[3] = "failed"
  /\ ~outOfOrder
  /\ ~failedInFlight


\* C17: while the parts are fetched never more than maxWorkers
\* (getMaxPartCount) part tasks run at once, and the tasks are dispatched in
\* ascending part index order: the tasks started so far are exactly those of
\* index below nextTask.
C17_BoundedWorkers ==
  pc = "fetch" =>
    /\ Cardinality(Running) <= getMaxPartCount
    /\ nextTask \in 0..Len(taskState)
    /\ \A i \in 1..Len(taskState) : (taskState[i] # "pending") <=> (i <= nextTask)

C17_Witness ==
  /\ pc = "fetch"
  /\ Len(Parts) >= 3
  /\ nextTask = 2
  /\ taskState[1] = "ok"
  /\ taskState[2] = "running"
  /\ taskState[3] = "pending"

C17_WitnessAllSlotsBusy ==
  /\ pc = "fetch"
  /\ Cardinality(Running) = getMaxPartCount
  /\ getMaxPartCount = 4


\* the parts computeParts made, from index i on, without the skipped ones
RECURSIVE KeptFrom(_, _)
KeptFrom(parts, i) ==
  IF i > Len(parts) THEN <<>>
  ELSE IF taskState[i] = "skipped" THEN KeptFrom(parts, i + 1)
       ELSE <<parts[i]>> \o KeptFrom(parts, i + 1)

ComputedParts == computeParts(location.ContentLength, location.OutFileName, mpsArg)

\* C18: for every assignment of skip flags, after deleteUnnecessaryParts the
\* Parts are exactly those whose skip flag is false, in their original order;
\* every part with the flag is gone, none without it is dropped or moved.
C18_SkippedPartsDropped ==
  (pc \in {"merge", "done"} /\ Len(taskState) > 0) =>
    /\ Parts = KeptFrom(ComputedParts, 1)
    /\ \A i \in 1..Len(Parts) : ~Parts[i].Skip

C18_Witness ==
  /\ pc = "merge"
  /\ taskState = <<"ok", "skipped", "skipped", "ok">>
  /\ Len(Parts) = 2
  /\ Parts[2].Name = OutFileName \o <<".part", 3>>

\* C19 as claimed: for every combination of skip flags the merge does not
\* crash, never looks into an empty part list, its target is the file at the
\* output path and never a .partN file, and the parts left are appended there.
C19_MergeIntoOutputFile ==
  (pc \in {"merge", "done"} /\ Len(taskState) > 0) =>
    /\ result # "panic"
    /\ Len(Parts) >= 1 => Parts[1].Name = OutFileName
    /\ (Done /\ result \in {"ok", "ChecksumMismatchError"}) =>
         /\ OutFileName \in DOMAIN files
         /\ files[OutFileName] = RangeBytes(Parts, 1)


\* C20: when computeParts makes more than one part, every part, the last
\* included, is at least minPartSize wide and the last part is wider than the
\* others by less than the number of parts; with a content length L >= 0 a part
\* is empty only if L = 0.
C20_PartWidths ==
  /\ (PartsComputed /\ Len(Parts) > 1) =>
       /\ location.ContentLength > mpsArg
       /\ \A i \in 1..Len(Parts) : Width(Parts[i]) >= mpsArg
       /\ Width(Parts[Len(Parts)]) - Width(Parts[1]) >= 0
       /\ Width(Parts[Len(Parts)]) - Width(Parts[1]) < Len(Parts)
  /\ (PartsComputed /\ location.ContentLength >= 0) =>
       ((\E i \in 1..Len(Parts) : Width(Parts[i]) = 0) => location.ContentLength = 0)

C20_Witness ==
  /\ PartsComputed
  /\ Len(Parts) = 8
  /\ mpsArg = minPartSize
  /\ Width(Parts[8]) = Width(Parts[1]) + 5

====
